---- MODULE Spec2Model ----
(***************************************************************************)
(* MediaWiki-Networks: a model of networkTools.py, and of the Network      *)
(* Builder and Graph Model of the design document.                         *)
(*                                                                         *)
(* The relation non_bot_edits is the sequence `edits' (one record per      *)
(* edit: page, user, time, comment), kept grouped by page and ordered by   *)
(* time.  The queries of the module (getEdits, getPageEdits, ...) are      *)
(* operators over it; makeGlobalCommNetwork and makeLocalCommNetwork run   *)
(* one call of getGlobalComm / getLocalComm per user of the list (Spec).   *)
(*                                                                         *)
(* buildNetwork scans a stream of edit records one record a step, then    *)
(* the graph is finalized, collapsed and queried (SpecBuilder).            *)
(***************************************************************************)
EXTENDS Integers, Sequences, FiniteSets, TLC

\* ------------------------------------------------------------------ bounds
NumUsers == 3
MaxTime == 3
MaxEdits == 4
MaxTalkEdits == 3
MaxComplexEdits == 2
MaxCutoff == 2

Users == 1..NumUsers
Times == 1..MaxTime
Deltas == 1..MaxTime
Cutoffs == 1..MaxCutoff

\* ------------------------------------------------- the pages of the wiki
\* Pages 1 and 2 are content pages, 3 is a content page whose sections are
\* told apart (a "complex" page), 4 is a content talk page, 5 and 6 are the
\* user talk pages of users 1 and 2.
ContentPages == {1, 2}
ComplexPages == {3}
TalkPages == {4, 5, 6}
Pages == ContentPages \cup ComplexPages \cup TalkPages

PageCategory(p) ==
    IF p \in ContentPages \cup ComplexPages THEN "Article"
    ELSE IF p = 4 THEN "Article talk" ELSE "User talk"

UserName(u) == <<"user", u>>

\* page_name, split at character 10: "User talk:" is ten characters long.
PageName(p) ==
    IF p = 4 THEN [head |-> "Talk:Artic", tail |-> <<"le">>]
    ELSE IF p \in {5, 6} THEN [head |-> "User talk:", tail |-> UserName(p - 4)]
    ELSE [head |-> "Article", tail |-> <<p>>]

\* ------------------------------------------------------------- comments
\* A comment is a string over the tokens "/* ", " */", " [", "]" and plain
\* words, or absent (NULL in the relation, None in Python).
OPEN == "/* "
CLOSE == " */"
LB == " ["
RB == "]"
Words == {"a", "b"}
Tokens == {OPEN, CLOSE, LB, RB} \cup Words

NoComment == [absent |-> TRUE, text |-> <<>>]
Text(s) == [absent |-> FALSE, text |-> s]

\* What a call gives: a value, or the exception it raises.
Value(v) == [raised |-> "", value |-> v]
Raise(e) == [raised |-> e, value |-> <<>>]

SubSeqOrEmpty(s, a, b) == IF a > b THEN <<>> ELSE SubSeq(s, a, b)

\* re.sub(r'\/\* (.*) \*\/.*', r'\1', s): the leftmost "/* " that has a " */"
\* after it; the group is greedy, so it runs to the last " */", and the final
\* .* takes the rest of the string.  What precedes the match is kept.
StripMarker(s) ==
    LET opens == {i \in 1..Len(s) : s[i] = OPEN /\ \E j \in (i+1)..Len(s) : s[j] = CLOSE}
    IN  IF opens = {} THEN s
        ELSE LET i == CHOOSE x \in opens : \A y \in opens : x <= y
                 j == CHOOSE x \in (i+1)..Len(s) :
                         s[x] = CLOSE /\ \A y \in (x+1)..Len(s) : s[y] # CLOSE
             IN  SubSeqOrEmpty(s, 1, i - 1) \o SubSeqOrEmpty(s, i + 1, j - 1)

\* re.sub(r' \[[^]]*\]$', '', s): a final "]" and the leftmost " [" with no
\* "]" between the two.
StripDate(s) ==
    LET starts == {k \in 1..(Len(s) - 1) :
                      /\ s[k] = LB
                      /\ s[Len(s)] = RB
                      /\ \A m \in (k+1)..(Len(s) - 1) : s[m] # RB}
    IN  IF starts = {} THEN s
        ELSE SubSeqOrEmpty(s, 1, (CHOOSE x \in starts : \A y \in starts : x <= y) - 1)

getSectionFromComment(comment) ==
    IF comment.absent THEN Raise("TypeError")
    ELSE Value(StripDate(StripMarker(comment.text)))

\* ------------------------------------------------------------ variables
VARIABLES
    edits,      \* non_bot_edits: <<[page, user, time, comment], ...>>
    pc,         \* "load", "global", "local", "doneGlobal", "doneLocal", "error"
    delta,      \* the timedelta of the running call
    userList,   \* the userList of the running call
    todo,       \* the users whose dictionary is still to be built
    netDict,    \* globalCommDict / localCommDict: user -> commDict
    partners,   \* edit examined so far -> its commPartners
    matrix,     \* the rows networkDictToMatrix returned
    \* the Network Builder and the Graph Model of the design
    bpc,        \* "idle", "scan", "finalized", "collapsed", "sub", "queried", "error"
    config,     \* [networkType, editLimit, editorLimit, timeLimit, sectionFilter]
    stream,     \* the records delivered so far: how many, their last page and time
    curPage,    \* the page of the current page scope, 0 before the first
    prevEdits,  \* the previous-edits list retained for the current page
    pageHist,   \* every edit of the current page scope that was windowed or opened it
    lastEdit,   \* what the scan of the last record collected and proposed
    staged,     \* the staging buffer of edge proposals
    graph,      \* the committed graph
    result      \* the outcome of the metric query

commVars == <<edits, pc, delta, userList, todo, netDict, partners, matrix>>
builderVars == <<bpc, config, stream, curPage, prevEdits, pageHist, lastEdit, staged, graph, result>>
vars == <<commVars, builderVars>>

EmptyDict == [u \in {} |-> 0]
Range(s) == {s[i] : i \in 1..Len(s)}

\* ------------------------------------------- Network Builder: its inputs
\* The Graph Model and the Network Builder follow the design document: the
\* streaming builder is not among the source files.
MaxRecords == 4
MaxEditLimit == 2
MaxEditorLimit == 2
MaxTimeLimit == 1

\* An absent limit ("absence of a limit means unbounded").
Unbounded == 0

NetworkTypes == {"coedit", "collaboration", "talk"}
\* The configurations built: every combination of the settings, section
\* filtering being exercised without a time limit.
Configs ==
    {c \in [networkType : NetworkTypes \cup {"observation"},
            editLimit : {Unbounded, MaxEditLimit},
            editorLimit : {Unbounded} \cup (1..MaxEditorLimit),
            timeLimit : {Unbounded, MaxTimeLimit},
            sectionFilter : BOOLEAN] :
        ~(c.sectionFilter /\ c.timeLimit # Unbounded)}

\* The pages of the stream: two articles, an article's talk page and the
\* talk page of user 1.
BuilderPages == {1, 2, 4, 5}
Namespace(p) ==
    IF PageCategory(p) = "Article" THEN 0
    ELSE IF PageCategory(p) = "Article talk" THEN 1 ELSE 3
BuilderComments == {NoComment, Text(<<OPEN, "a", CLOSE, "b">>)}

\* The builder compares section labels only under section filtering and
\* timestamps only under a time limit: the streams vary what is compared.
StreamComments(c) == IF c.sectionFilter THEN BuilderComments ELSE {NoComment}
StreamTimes(c) == IF c.timeLimit # Unbounded THEN Times ELSE {1}

EditRecord(u, p, c, t) ==
    [editor |-> u, pageId |-> p, namespace |-> Namespace(p), title |-> PageName(p),
     comment |-> c, timestamp |-> t]

NoConfig ==
    [networkType |-> "", editLimit |-> Unbounded, editorLimit |-> Unbounded,
     timeLimit |-> Unbounded, sectionFilter |-> FALSE]
NoStream == [n |-> 0, page |-> 0, time |-> 0]
NoLabel == NoComment
NoEdit ==
    [n |-> 0, editor |-> 0, section |-> NoLabel, time |-> 0, first |-> TRUE,
     coEditors |-> <<>>, collaboration |-> FALSE, owner |-> 0, emitted |-> <<>>]
NoGraph == [directed |-> FALSE, vertices |-> <<>>, edges |-> <<>>]
NoResult == Value(<<>>)

\* ------------------------------------------------------------- queries
\* Every query reads the relation through the connection conn: db.

\* getEdits: the edits of userID with startTime < edit_time < endTime.
getEdits(db, userID, startTime, endTime) ==
    LET hit(i) == db[i].user = userID /\ db[i].time > startTime /\ db[i].time < endTime
        F[i \in 0..Len(db)] ==
            IF i = 0 THEN <<>> ELSE IF hit(i) THEN Append(F[i-1], i) ELSE F[i-1]
    IN  F[Len(db)]

\* The rows getPageEdits selects: page_id = pageID AND edit_time > startTime
\* AND edit_time < endTime.
PageEditRowsLoose(db, pageID, startTime, endTime) ==
    {i \in 1..Len(db) : db[i].page = pageID
                        /\ db[i].time >= startTime /\ db[i].time < endTime}

PageEditRowsAnyPage(db, pageID, startTime, endTime) ==
    {i \in 1..Len(db) : db[i].time > startTime /\ db[i].time < endTime}

PageEditRows(db, pageID, startTime, endTime) ==
    {i \in 1..Len(db) : db[i].page = pageID
                        /\ db[i].time > startTime /\ db[i].time < endTime}

\* getPageEdits: ORDER BY edit_time DESC leaves the order of rows of one
\* edit_time open, so the query may answer with any of these lists.
getPageEdits(db, pageID, startTime, endTime) ==
    LET S == PageEditRows(db, pageID, startTime, endTime)
        n == Cardinality(S)
    IN  {f \in [1..n -> S] :
            /\ \A i, j \in 1..n : i # j => f[i] # f[j]
            /\ \A i, j \in 1..n : i < j => db[f[i]].time >= db[f[j]].time}

\* getRecentEditors, on the list getPageEdits answered with.
RECURSIVE ScanEditors(_, _, _, _)
ScanEditors(db, editors, userID, i) ==
    IF i > Len(editors) THEN {}
    ELSE IF db[editors[i]].user = userID THEN {}
    ELSE {db[editors[i]].user} \cup ScanEditors(db, editors, userID, i + 1)

getRecentEditorsNoBreak(db, userID, editors) ==
    {db[editors[i]].user : i \in 1..Len(editors)}

getRecentEditors(db, userID, editors) == ScanEditors(db, editors, userID, 1)

\* getComplexTalkers, on the list getPageEdits answered with.
RECURSIVE ScanTalkers(_, _, _, _, _)
ScanTalkers(db, rows, userID, origSec, i) ==
    IF i > Len(rows) THEN Value({})
    ELSE LET currSec == getSectionFromComment(db[rows[i]].comment)
         IN  IF currSec.raised # "" THEN currSec
             ELSE IF currSec.value # <<>> /\ currSec.value = origSec
                  THEN IF db[rows[i]].user = userID THEN Value({})
                       ELSE LET rest == ScanTalkers(db, rows, userID, origSec, i + 1)
                            IN  IF rest.raised # "" THEN rest
                                ELSE Value({db[rows[i]].user} \cup rest.value)
                  ELSE ScanTalkers(db, rows, userID, origSec, i + 1)

getComplexTalkers(db, userID, origComment, rows) ==
    LET origSec == getSectionFromComment(origComment)
    IN  IF origSec.raised # "" THEN origSec
        ELSE ScanTalkers(db, rows, userID, origSec.value, 1)

\* ------------------------------------------------ rows of the other tables
\* cursor.fetchone() gives a row (a 1-tuple) or None, never a bare value.
None == [none |-> TRUE, v |-> 0]
Row(v) == [none |-> FALSE, v |-> v]

getUserID(userName) ==
    IF \E u \in Users : UserName(u) = userName
    THEN Row(CHOOSE u \in Users : UserName(u) = userName)
    ELSE None

getPageID(pageName) ==
    IF \E p \in Pages : PageName(p) = pageName
    THEN Row(CHOOSE p \in Pages : PageName(p) = pageName)
    ELSE None

getLastEditByUser(db, userID, pageID, editTime) ==
    LET S == {i \in 1..Len(db) : db[i].user = userID /\ db[i].page = pageID
                                 /\ db[i].time < editTime}
    IN  IF S = {} THEN None
        ELSE Row(db[CHOOSE i \in S : \A j \in S : db[i].time >= db[j].time].time)

\* Python's `row in ids' and `row not in ids' for a row (or None) and a set of
\* integer user ids: a tuple equals no integer, so the test is always false.
RowInIds(row, ids) == FALSE

\* getPageEdits with a row (or None) as page id and start time: a NULL
\* comparison selects nothing; a 1-tuple is sent as its parenthesised value.
NullablePageEditRows(db, pageRow, startRow, endTime) ==
    IF pageRow.none \/ startRow.none THEN {}
    ELSE PageEditRows(db, pageRow.v, startRow.v, endTime)

\* getUserTalkers, on the list getPageEdits answered with for the page.
getUserTalkers(db, userID, userName, pageID, pageName, editTime, editors) ==
    LET talkers == getRecentEditors(db, userID, editors)
        pageOwner == pageName.tail
        pageOwnerID == getUserID(pageOwner)
    IN  IF userName # pageOwner /\ ~RowInIds(pageOwnerID, talkers)
        THEN LET usersPageName == [head |-> "User talk:", tail |-> userName]
                 userPageID == getPageID(usersPageName)
                 startTime == getLastEditByUser(db, userID, pageID, editTime)
                 usersPageEditors ==
                     {db[i].user : i \in NullablePageEditRows(db, userPageID, startTime, editTime)}
             IN  IF RowInIds(pageOwnerID, usersPageEditors)
                 THEN Raise("TypeError")      \* talkers |= pageOwnerID
                 ELSE Value(talkers)
        ELSE Value(talkers)

\* -------------------------------------------------- the calls' arguments
Window == [start |-> 0, end |-> MaxTime + 1]
globalCats == {"Article"}
complexPages == ComplexPages
userTalkCats == {"User talk"}
contentTalkCats == {"Article talk"}
PageComments ==
    {NoComment, Text(<<>>), Text(<<OPEN, "a", CLOSE, "b">>), Text(<<"b", LB, "a", RB>>)}
PlainComment == Text(<<"a">>)
UserLists == {[i \in 1..k |-> i] : k \in 2..NumUsers}

\* ------------------------------------------- getGlobalComm, getLocalComm
\* The commPartners of the edit db[idx], given what getPageEdits answered.
GlobalPartners(db, idx, editors) ==
    LET e == db[idx]
    IN  IF PageCategory(e.page) \in globalCats
        THEN IF e.page \in complexPages
             THEN getComplexTalkers(db, e.user, e.comment, editors)
             ELSE Value(getRecentEditors(db, e.user, editors))
        ELSE Value({})

LocalPartners(db, idx, editors) ==
    LET e == db[idx]
    IN  IF PageCategory(e.page) \in userTalkCats
        THEN getUserTalkers(db, e.user, UserName(e.user), e.page, PageName(e.page),
                            e.time, editors)
        ELSE IF PageCategory(e.page) \in contentTalkCats
             THEN Value(getRecentEditors(db, e.user, editors))
             ELSE Value({})

\* What examining db[idx] may give: one result for each answer of getPageEdits.
EditOutcomes(db, kind, idx, d) ==
    {IF kind = "global" THEN GlobalPartners(db, idx, editors)
                        ELSE LocalPartners(db, idx, editors) :
        editors \in getPageEdits(db, db[idx].page, db[idx].time - d, db[idx].time)}

\* for cp in commPartners: if cp != userID and cp in userList: commDict[cp] += 1
CountOnce(dict, commPartners, userID, ul) ==
    LET hit == {cp \in commPartners : cp # userID /\ cp \in Range(ul)}
    IN  [cp \in DOMAIN dict \cup hit |-> 1]

CountPartners(dict, commPartners, userID, ul) ==
    LET hit == {cp \in commPartners : cp # userID /\ cp \in Range(ul)}
    IN  [cp \in DOMAIN dict \cup hit |->
            (IF cp \in DOMAIN dict THEN dict[cp] ELSE 0) + (IF cp \in hit THEN 1 ELSE 0)]

\* The loop over the edits E of userID, after its first k turns: the
\* commDict so far, the commPartners of each edit examined, and the exception
\* that ended the loop, if one did.
RECURSIVE LoopEdits(_, _, _, _, _, _, _)
LoopEdits(db, kind, userID, E, k, ul, d) ==
    IF k = 0 THEN {[raised |-> "", dict |-> EmptyDict, partners |-> EmptyDict]}
    ELSE UNION {
            IF prev.raised # "" THEN {prev}
            ELSE {IF got.raised # ""
                  THEN [raised |-> got.raised, dict |-> prev.dict, partners |-> prev.partners]
                  ELSE [raised |-> "",
                        dict |-> CountPartners(prev.dict, got.value, userID, ul),
                        partners |-> [i \in DOMAIN prev.partners \cup {E[k]} |->
                                         IF i = E[k] THEN got.value ELSE prev.partners[i]]] :
                     got \in EditOutcomes(db, kind, E[k], d)} :
            prev \in LoopEdits(db, kind, userID, E, k - 1, ul, d)}

\* getGlobalComm(userID, ...) and getLocalComm(userID, ...): what a call may return.
CommOutcomes(db, kind, userID, ul, d) ==
    LET E == getEdits(db, userID, Window.start, Window.end)
    IN  LoopEdits(db, kind, userID, E, Len(E), ul, d)

\* ----------------------------------------------------------------- edits
PageGroup(p) ==
    IF p \in ContentPages THEN "content" ELSE IF p \in ComplexPages THEN "complex" ELSE "talk"

GroupMaxEdits(g) ==
    IF g = "content" THEN MaxEdits ELSE IF g = "complex" THEN MaxComplexEdits ELSE MaxTalkEdits

\* A wiki edit: a row is added to non_bot_edits.  The relation is kept the
\* way the edit stream is delivered: grouped by page, ordered by time.  The
\* wikis examined hold content pages, or a complex page, or talk pages.
InsertEdit(p, u, t, c) ==
    /\ pc = "load"
    /\ IF edits = <<>> THEN TRUE ELSE PageGroup(edits[1].page) = PageGroup(p)
    /\ Len(edits) < GroupMaxEdits(PageGroup(p))
    /\ IF p \in complexPages THEN c \in PageComments ELSE c = PlainComment
    /\ IF edits = <<>> THEN TRUE
       ELSE LET e == edits[Len(edits)]
            IN  e.page < p \/ (e.page = p /\ e.time <= t)
    /\ edits' = Append(edits, [page |-> p, user |-> u, time |-> t, comment |-> c])
    /\ UNCHANGED <<pc, delta, userList, todo, netDict, partners, matrix>>
    /\ UNCHANGED builderVars

\* The dictionary comprehensions of makeGlobalCommNetwork (line 18) and
\* makeLocalCommNetwork (line 54) start with the first user of the list.
StartCall(kind, ul, d) ==
    /\ pc = "load"
    /\ pc' = kind
    /\ userList' = ul
    /\ delta' = d
    /\ todo' = ul
    /\ netDict' = EmptyDict
    /\ partners' = EmptyDict
    /\ UNCHANGED <<edits, matrix>>
    /\ UNCHANGED builderVars

makeGlobalCommNetwork(ul, d) ==
    /\ IF edits = <<>> THEN TRUE ELSE PageGroup(edits[1].page) # "talk"
    /\ StartCall("global", ul, d)

makeLocalCommNetwork(ul, d) ==
    /\ IF edits = <<>> THEN TRUE ELSE PageGroup(edits[1].page) = "talk"
    /\ StartCall("local", ul, d)

\* One call getGlobalComm(x, ...) or getLocalComm(x, ...) of the comprehension.
CommCall(kind) ==
    /\ pc = kind
    /\ todo # <<>>
    /\ \E out \in CommOutcomes(edits, kind, Head(todo), userList, delta) :
          IF out.raised # ""
          THEN /\ pc' = "error"
               /\ UNCHANGED <<todo, netDict, partners>>
          ELSE /\ pc' = pc
               /\ todo' = Tail(todo)
               /\ netDict' = [u \in DOMAIN netDict \cup {Head(todo)} |->
                                 IF u = Head(todo) THEN out.dict ELSE netDict[u]]
               /\ partners' = [i \in DOMAIN partners \cup DOMAIN out.partners |->
                                  IF i \in DOMAIN out.partners THEN out.partners[i]
                                  ELSE partners[i]]
    /\ UNCHANGED <<edits, delta, userList, matrix>>
    /\ UNCHANGED builderVars

getGlobalComm == CommCall("global")

getLocalComm == CommCall("local")

\* networkDictToMatrix(nDict, cutoff = cutoff, dichotomize): finalMatrix, with
\* nodeList = sorted(nDict); row i, column j.
finalMatrix(nDict, cutoff, dichotomize) ==
    [i \in DOMAIN nDict |-> [j \in DOMAIN nDict |->
        IF i \in DOMAIN nDict /\ j \in DOMAIN nDict[i] /\ nDict[i][j] >= cutoff
        THEN IF dichotomize THEN "1" ELSE ToString(nDict[i][j])
        ELSE "0"]]

networkDictToMatrix(cutoff) ==
    /\ pc \in {"global", "local", "observation", "network"}
    /\ todo = <<>>
    /\ matrix' = finalMatrix(netDict, cutoff, TRUE)
    /\ pc' = IF pc = "global" THEN "doneGlobal"
             ELSE IF pc = "local" THEN "doneLocal"
             ELSE IF pc = "observation" THEN "doneObservation" ELSE "doneNetwork"
    /\ UNCHANGED <<edits, delta, userList, todo, netDict, partners>>
    /\ UNCHANGED builderVars

\* ------------------------------------------------------- observations
\* No row: cur.fetchone() gave None, and getLastEditor returns None.
NoUser == 0

\* getLastEditor(pageID, editTime): the user of a latest edit of the page
\* with edit_time < editTime; ORDER BY edit_time DESC leaves the choice among
\* the rows of the latest time open.
getLastEditor(db, pageID, editTime) ==
    LET rows == {i \in 1..Len(db) : db[i].page = pageID /\ db[i].time < editTime}
        latest == {i \in rows : \A j \in rows : db[j].time <= db[i].time}
    IN  IF rows = {} THEN {NoUser} ELSE {db[i].user : i \in latest}

\* if observed != userID and observed in userList: observationsDict[observed] += 1
CountObservedSelf(dict, observed, userID, ul) ==
    IF observed \in Range(ul)
    THEN [cp \in DOMAIN dict \cup {observed} |->
             (IF cp \in DOMAIN dict THEN dict[cp] ELSE 0) + (IF cp = observed THEN 1 ELSE 0)]
    ELSE dict

CountObserved(dict, observed, userID, ul) ==
    IF observed # userID /\ observed \in Range(ul)
    THEN [cp \in DOMAIN dict \cup {observed} |->
             (IF cp \in DOMAIN dict THEN dict[cp] ELSE 0) + (IF cp = observed THEN 1 ELSE 0)]
    ELSE dict

\* The loop of getObservations over the edits E of userID, after k turns.
RECURSIVE LoopObservations(_, _, _, _, _)
LoopObservations(db, userID, E, k, ul) ==
    IF k = 0 THEN {EmptyDict}
    ELSE {CountObserved(prev, observed, userID, ul) :
             prev \in LoopObservations(db, userID, E, k - 1, ul),
             observed \in getLastEditor(db, db[E[k]].page, db[E[k]].time)}

\* getObservations(userID, startTime, endTime, userList): what a call may return.
ObservationOutcomes(db, userID, ul) ==
    LET E == getEdits(db, userID, Window.start, Window.end)
    IN  LoopObservations(db, userID, E, Len(E), ul)

\* The dictionary comprehension of makeObservationNetwork (line 179).
makeObservationNetwork(ul) == StartCall("observation", ul, delta)

\* One call getObservations(x, ...) of the comprehension.
getObservations ==
    /\ pc = "observation"
    /\ todo # <<>>
    /\ \E out \in ObservationOutcomes(edits, Head(todo), userList) :
          netDict' = [u \in DOMAIN netDict \cup {Head(todo)} |->
                         IF u = Head(todo) THEN out ELSE netDict[u]]
    /\ todo' = Tail(todo)
    /\ UNCHANGED <<edits, pc, delta, userList, partners, matrix>>
    /\ UNCHANGED builderVars

\* ------------------------------------------------------- watch network
MaxWatchPages == 2
MaxWatchers == 2

\* makeWatchDict gives {page: [user, ...]}, each list with a user or more;
\* makeEditorDict gives {page: set of contributors} for pages of the watchDict.
WatchPages == 1..MaxWatchPages
WatcherLists == UNION {[1..n -> Users] : n \in 1..MaxWatchers}
WatchDicts == UNION {[P -> WatcherLists] : P \in SUBSET WatchPages}
EditorDicts(watchDict) ==
    UNION {[P -> (SUBSET Users) \ {{}}] : P \in SUBSET DOMAIN watchDict}

\* "for page in editorDict": the order a dict is iterated in.
Orders(S) ==
    {o \in [1..Cardinality(S) -> S] : \A a, b \in 1..Cardinality(S) : a # b => o[a] # o[b]}

\* The body of "for watcher in watchDict[page]" for one watcher.
AddWatcher(nd, watcher, editors) ==
    LET others == editors \ {watcher}
    IN  IF watcher \notin DOMAIN nd
        THEN [u \in DOMAIN nd \cup {watcher} |->
                 IF u = watcher THEN [editor \in others |-> 1] ELSE nd[u]]
        ELSE [u \in DOMAIN nd \cup others |->
                 IF u = watcher
                 THEN [editor \in DOMAIN nd[watcher] \cup others |->
                          (IF editor \in DOMAIN nd[watcher] THEN nd[watcher][editor] ELSE 0)
                          + (IF editor \in others THEN 1 ELSE 0)]
                 ELSE IF u \in DOMAIN nd THEN nd[u] ELSE EmptyDict]

RECURSIVE LoopWatchers(_, _, _, _)
LoopWatchers(nd, watchers, k, editors) ==
    IF k = 0 THEN nd
    ELSE AddWatcher(LoopWatchers(nd, watchers, k - 1, editors), watchers[k], editors)

RECURSIVE LoopPages(_, _, _, _)
LoopPages(order, k, watchDict, editorDict) ==
    IF k = 0 THEN EmptyDict
    ELSE LoopWatchers(LoopPages(order, k - 1, watchDict, editorDict),
                      watchDict[order[k]], Len(watchDict[order[k]]), editorDict[order[k]])

\* makeNetwork(watchDict, editorDict): networkDict.
makeNetwork(watchDict, editorDict, order) ==
    /\ pc = "load"
    /\ edits = <<>>
    /\ pc' = "network"
    /\ netDict' = LoopPages(order, Len(order), watchDict, editorDict)
    /\ todo' = <<>>
    /\ UNCHANGED <<edits, delta, userList, partners, matrix>>
    /\ UNCHANGED builderVars

Init ==
    /\ edits = <<>>
    /\ pc = "load"
    /\ delta = 1
    /\ userList = <<>>
    /\ todo = <<>>
    /\ netDict = EmptyDict
    /\ partners = EmptyDict
    /\ matrix = <<>>
    /\ bpc = "idle"
    /\ config = NoConfig
    /\ stream = NoStream
    /\ curPage = 0
    /\ prevEdits = <<>>
    /\ pageHist = <<>>
    /\ lastEdit = NoEdit
    /\ staged = <<>>
    /\ graph = NoGraph
    /\ result = NoResult

Next ==
    \/ \E p \in Pages, u \in Users, t \in Times, c \in PageComments \cup {PlainComment} :
          InsertEdit(p, u, t, c)
    \/ \E ul \in UserLists, d \in Deltas : makeGlobalCommNetwork(ul, d)
    \/ \E ul \in UserLists, d \in Deltas : makeLocalCommNetwork(ul, d)
    \/ getGlobalComm
    \/ getLocalComm
    \/ \E cutoff \in Cutoffs : networkDictToMatrix(cutoff)

Spec == Init /\ [][Next]_vars

\* ========================================================== Graph Model
newGraph(directed) == [directed |-> directed, vertices |-> <<>>, edges |-> <<>>]

\* stageEdges(from, to): one proposal per element of to, appended to the buffer.
stageEdges(buffer, from, to) == buffer \o [i \in 1..Len(to) |-> <<from, to[i]>>]

RECURSIVE SortedSeq(_)
SortedSeq(S) ==
    IF S = {} THEN <<>>
    ELSE LET m == CHOOSE x \in S : \A y \in S : x <= y
         IN  <<m>> \o SortedSeq(S \ {m})

\* finalize(): the vertices are the distinct endpoints in sorted order, and
\* every staged proposal becomes an edge of weight 1.
Finalized(g, buffer) ==
    [directed |-> g.directed,
     vertices |-> SortedSeq({buffer[i][1] : i \in 1..Len(buffer)}
                            \cup {buffer[i][2] : i \in 1..Len(buffer)}),
     edges |-> [i \in 1..Len(buffer) |->
                   [from |-> buffer[i][1], to |-> buffer[i][2], weight |-> 1]]]

\* The endpoint pair that makes edges parallel: ordered for a directed graph,
\* unordered otherwise.
EdgeKey(g, e) ==
    IF g.directed \/ e.from <= e.to THEN <<e.from, e.to>> ELSE <<e.to, e.from>>

RECURSIVE SumWeights(_, _, _)
SumWeights(g, key, i) ==
    IF i = 0 THEN 0
    ELSE SumWeights(g, key, i - 1)
         + (IF EdgeKey(g, g.edges[i]) = key THEN g.edges[i].weight ELSE 0)

\* collapseWeights(): one edge per endpoint pair, its weight the sum.
Collapsed(g) ==
    LET E == g.edges
        firsts == SelectSeq([i \in 1..Len(E) |-> i],
                            LAMBDA i : \A j \in 1..(i - 1) : EdgeKey(g, E[j]) # EdgeKey(g, E[i]))
    IN  [directed |-> g.directed,
         vertices |-> g.vertices,
         edges |-> [k \in 1..Len(firsts) |->
                       LET key == EdgeKey(g, E[firsts[k]])
                       IN  [from |-> key[1], to |-> key[2],
                            weight |-> SumWeights(g, key, Len(E))]]]

\* subgraph(vertices): the induced subgraph on the requested vertices the
\* graph has.
Induced(g, S) ==
    [directed |-> g.directed,
     vertices |-> SelectSeq(g.vertices, LAMBDA v : v \in S),
     edges |-> SelectSeq(g.edges, LAMBDA e : e.from \in S /\ e.to \in S)]

\* The guard of the normalized betweenness: DegenerateGraphError when n < 2.
Degenerate(n) == n < 2

\* betweenness(vertices, normalized): the centrality is scaled by
\* 2 / (n^2 - 3n + 2); the outcome keeps the factor as <<numerator, denominator>>.
Betweenness(g, normalized) ==
    LET n == Len(g.vertices)
        den == n * n - 3 * n + 2
    IN  IF ~normalized THEN Value(<<1, 1>>)
        ELSE IF Degenerate(n) THEN Raise("DegenerateGraphError")
        ELSE IF den = 0 THEN Raise("division by zero")
        ELSE Value(<<2, den>>)

\* ====================================================== Network Builder
\* A page is a talk page iff its namespace is odd.
isTalk(namespace) == namespace % 2 = 1

\* The owner a user-talk title names, 0 when the title names none.
TitleOwner(title) ==
    IF title.head = "User talk:" /\ \E u \in Users : UserName(u) = title.tail
    THEN CHOOSE u \in Users : UserName(u) = title.tail
    ELSE 0

\* extractSection(comment): (a) a leading "/* label */" marker, (b) else a
\* trailing "[...]" marker, the label being what precedes it, (c) else None.
extractSection(comment) ==
    LET t == comment.text
    IN  IF comment.absent \/ t = <<>> THEN NoLabel
        ELSE IF t[1] = OPEN /\ \E j \in 2..Len(t) : t[j] = CLOSE
        THEN Text(SubSeqOrEmpty(t, 2,
                 (CHOOSE j \in 2..Len(t) :
                     t[j] = CLOSE /\ \A m \in 2..(j - 1) : t[m] # CLOSE) - 1))
        ELSE IF t[Len(t)] = RB /\ \E k \in 1..(Len(t) - 1) : t[k] = LB
        THEN Text(SubSeqOrEmpty(t, 1,
                 (CHOOSE k \in 1..(Len(t) - 1) :
                     t[k] = LB /\ \A m \in 1..(k - 1) : t[m] # LB) - 1))
        ELSE NoLabel

\* Section filtering disabled, or both edits resolve to the same label; two
\* absent labels do not match when filtering is on.
SameSection(c, a, b) == ~c.sectionFilter \/ (a = b /\ a # NoLabel)

\* editorLimit is set and the co-editors collected have reached it.
LimitReachedLate(c, coEditors) ==
    c.editorLimit # Unbounded /\ Len(coEditors) > c.editorLimit
LimitReached(c, coEditors) ==
    c.editorLimit # Unbounded /\ Len(coEditors) >= c.editorLimit

\* timeLimit is set and the elapsed time exceeds it.
TooOld(c, cur, cand) == c.timeLimit # Unbounded /\ cur.time - cand.time > c.timeLimit

\* Step 1: at most the last editLimit entries.
Truncated(c, prev) ==
    IF c.editLimit # Unbounded /\ Len(prev) > c.editLimit
    THEN SubSeq(prev, Len(prev) - c.editLimit + 1, Len(prev))
    ELSE prev

\* Step 2: the reverse scan from candidate i down.  A stop on a limit keeps
\* of the retained list the edits after the candidate; a stop on the
\* editor's own edit keeps the list.
RECURSIVE Scan(_, _, _, _, _)
Scan(c, prev, cur, i, coEditors) ==
    IF i = 0
    THEN [coEditors |-> coEditors, collaboration |-> FALSE, retained |-> prev]
    ELSE IF LimitReached(c, coEditors) \/ TooOld(c, cur, prev[i])
    THEN [coEditors |-> coEditors, collaboration |-> FALSE,
          retained |-> SubSeqOrEmpty(prev, i + 1, Len(prev))]
    ELSE IF prev[i].editor = cur.editor
    THEN [coEditors |-> coEditors, collaboration |-> TRUE, retained |-> prev]
    ELSE IF /\ SameSection(c, cur.section, prev[i].section)
            /\ \A k \in 1..Len(coEditors) : coEditors[k] # prev[i].editor
    THEN Scan(c, prev, cur, i - 1, Append(coEditors, prev[i].editor))
    ELSE Scan(c, prev, cur, i - 1, coEditors)

\* Step 3: a collaboration network emits only when the flag was set.
EmitsAlways(c, collaboration) == TRUE
Emits(c, collaboration) == c.networkType = "collaboration" => collaboration

\* buildNetwork(edits, networkType, editLimit, editorLimit, timeLimit,
\* sectionFilter): the type is validated and the graph is constructed.
buildNetwork(c) ==
    /\ bpc = "idle"
    /\ IF c.networkType \in NetworkTypes
       THEN /\ bpc' = "scan"
            /\ config' = c
            /\ graph' = newGraph(c.networkType = "talk")
            /\ UNCHANGED result
       ELSE /\ bpc' = "error"
            /\ result' = Raise("InvalidNetworkTypeError")
            /\ UNCHANGED <<config, graph>>
    /\ UNCHANGED <<stream, curPage, prevEdits, pageHist, lastEdit, staged>>
    /\ UNCHANGED commVars

\* The pass over one record of the stream: the filter of the network type,
\* the owner edge of a user-talk page, the page scope, and the windowing.
ScanRecord(r) ==
    LET c == config
        cur == [editor |-> r.editor, section |-> extractSection(r.comment),
                time |-> r.timestamp]
        skip == IF c.networkType = "talk" THEN ~isTalk(r.namespace)
                ELSE isTalk(r.namespace)
        owner == IF c.networkType = "talk" /\ TitleOwner(r.title) \notin {0, r.editor}
                 THEN TitleOwner(r.title) ELSE 0
        ownerEdge == IF owner # 0 THEN <<owner>> ELSE <<>>
        sc == Scan(c, Truncated(c, prevEdits), cur, Len(Truncated(c, prevEdits)), <<>>)
        emitted == IF Emits(c, sc.collaboration) THEN sc.coEditors ELSE <<>>
    IN
    /\ bpc = "scan"
    /\ stream.n < MaxRecords
    /\ \/ r.pageId > stream.page
       \/ r.pageId = stream.page /\ r.timestamp >= stream.time
    /\ stream' = [n |-> stream.n + 1, page |-> r.pageId, time |-> r.timestamp]
    /\ IF skip
       THEN UNCHANGED <<curPage, prevEdits, pageHist, lastEdit, staged>>
       ELSE IF r.pageId # curPage
       THEN /\ curPage' = r.pageId
            /\ prevEdits' = <<cur>>
            /\ pageHist' = <<cur>>
            /\ staged' = stageEdges(staged, r.editor, ownerEdge)
            /\ lastEdit' = [n |-> stream.n + 1, editor |-> r.editor, section |-> cur.section,
                            time |-> cur.time, first |-> TRUE, coEditors |-> <<>>,
                            collaboration |-> FALSE, owner |-> owner, emitted |-> <<>>]
       ELSE /\ curPage' = curPage
            /\ prevEdits' = Append(sc.retained, cur)
            /\ pageHist' = Append(pageHist, cur)
            /\ staged' = stageEdges(staged, r.editor, ownerEdge \o emitted)
            /\ lastEdit' = [n |-> stream.n + 1, editor |-> r.editor, section |-> cur.section,
                            time |-> cur.time, first |-> FALSE, coEditors |-> sc.coEditors,
                            collaboration |-> sc.collaboration, owner |-> owner,
                            emitted |-> emitted]
    /\ UNCHANGED <<bpc, config, graph, result>>
    /\ UNCHANGED commVars

\* The stream is exhausted: finalize(), and the pass's own state is gone.
finalize ==
    /\ bpc = "scan"
    /\ bpc' = "finalized"
    /\ graph' = Finalized(graph, staged)
    /\ staged' = <<>>
    /\ config' = NoConfig
    /\ stream' = NoStream
    /\ curPage' = 0
    /\ prevEdits' = <<>>
    /\ pageHist' = <<>>
    /\ lastEdit' = NoEdit
    /\ UNCHANGED result
    /\ UNCHANGED commVars

collapseWeights ==
    /\ bpc = "finalized"
    /\ bpc' = "collapsed"
    /\ graph' = Collapsed(graph)
    /\ UNCHANGED <<config, stream, curPage, prevEdits, pageHist, lastEdit, staged, result>>
    /\ UNCHANGED commVars

subgraph(S) ==
    /\ bpc = "collapsed"
    /\ bpc' = "sub"
    /\ graph' = Induced(graph, S)
    /\ UNCHANGED <<config, stream, curPage, prevEdits, pageHist, lastEdit, staged, result>>
    /\ UNCHANGED commVars

betweenness(normalized) ==
    /\ bpc \in {"collapsed", "sub"}
    /\ bpc' = "queried"
    /\ result' = Betweenness(graph, normalized)
    /\ UNCHANGED <<config, stream, curPage, prevEdits, pageHist, lastEdit, staged, graph>>
    /\ UNCHANGED commVars

NextBuilder ==
    \/ \E c \in Configs : buildNetwork(c)
    \/ \E u \in Users, p \in BuilderPages, m \in StreamComments(config), t \in StreamTimes(config) :
          ScanRecord(EditRecord(u, p, m, t))
    \/ finalize
    \/ collapseWeights
    \/ \E S \in SUBSET Users : subgraph(S)
    \/ \E normalized \in BOOLEAN : betweenness(normalized)

SpecBuilder == Init /\ [][NextBuilder]_vars

\* ============================================ every network of the module
\* One run builds one network: a communication network, an observation
\* network or a watch network of networkTools.py, or a network of the builder.
NextNetworks ==
    \/ bpc = "idle" /\ Next
    \/ bpc = "idle" /\ \E ul \in UserLists : makeObservationNetwork(ul)
    \/ getObservations
    \/ /\ bpc = "idle"
       /\ pc = "load"
       /\ edits = <<>>
       /\ \E watchDict \in WatchDicts : \E editorDict \in EditorDicts(watchDict) :
             \E order \in Orders(DOMAIN editorDict) :
                makeNetwork(watchDict, editorDict, order)
    \/ pc = "load" /\ edits = <<>> /\ NextBuilder

SpecNetworks == Init /\ [][NextNetworks]_vars

\* =================================================================== claims
\* The edit stream: edit i of the relation, the edits of its page before it,
\* and those of them made by its own editor.
SamePageBefore(i) == {j \in 1..(i - 1) : edits[j].page = edits[i].page}
OwnBefore(i) == {j \in SamePageBefore(i) : edits[j].user = edits[i].user}
LastOwn(i) == CHOOSE k \in OwnBefore(i) : \A j \in OwnBefore(i) : j <= k

\* The editors of the edits made since the editor's own previous edit of the
\* page, or of all earlier edits of the page when there is none.
SinceLastVisit(i) ==
    IF OwnBefore(i) = {} THEN {edits[j].user : j \in SamePageBefore(i)}
    ELSE {edits[j].user : j \in {k \in SamePageBefore(i) : k > LastOwn(i)}}

GlobalCall == pc \in {"global", "doneGlobal"}
LocalCall == pc \in {"local", "doneLocal"}
NoTimeLimit == delta >= MaxTime

\* No earlier edit of the page carries the timestamp of edit i, and no other
\* editor's edit of the page carries that of its editor's previous edit.
TimesTellApart(i) ==
    /\ \A j \in SamePageBefore(i) : edits[j].time < edits[i].time
    /\ OwnBefore(i) # {} =>
          \A j \in 1..Len(edits) :
              (edits[j].page = edits[i].page /\ edits[j].user # edits[i].user)
                  => edits[j].time # edits[LastOwn(i)].time

\* C1 as stated: with no limits, on a page whose sections are not told apart,
\* every edit that is not the first of its page proposes exactly the editors
\* of the edits made since its editor's previous edit of the page (all earlier
\* editors when there is none).
C1_Stated ==
    (GlobalCall /\ NoTimeLimit) =>
        \A i \in DOMAIN partners :
            (edits[i].page \in ContentPages /\ SamePageBefore(i) # {})
                => partners[i] = SinceLastVisit(i)

\* C1 as amended: the same, for every edit whose timestamp no earlier edit of
\* the page shares and whose editor's previous edit shares its timestamp with no
\* other editor's edit of the page; and no proposed editor comes from an edit
\* that carries the timestamp of the examined edit.
C1_SinceLastVisit ==
    (GlobalCall /\ NoTimeLimit) =>
        \A i \in DOMAIN partners :
            (edits[i].page \in ContentPages /\ SamePageBefore(i) # {}) =>
                /\ TimesTellApart(i) => partners[i] = SinceLastVisit(i)
                /\ \A u \in partners[i] :
                      \E j \in 1..Len(edits) :
                          /\ edits[j].page = edits[i].page
                          /\ edits[j].user = u
                          /\ edits[j].time < edits[i].time

C1_Witness ==
    /\ GlobalCall /\ NoTimeLimit
    /\ \E i \in DOMAIN partners :
          /\ edits[i].page \in ContentPages
          /\ OwnBefore(i) # {}
          /\ TimesTellApart(i)
          /\ partners[i] # {}
          /\ partners[i] = SinceLastVisit(i)

\* C2: the matrix makeLocalCommNetwork returns is binary and undirected: every
\* entry is "0" or "1" and row i, column j equals row j, column i.
C2_UndirectedBinary ==
    pc = "doneLocal" =>
        \A i \in DOMAIN matrix : \A j \in DOMAIN matrix :
            /\ matrix[i][j] \in {"0", "1"}
            /\ matrix[i][j] = matrix[j][i]

\* ---- C5
RestrictDb(db, P) == SelectSeq(db, LAMBDA r : r.page \in P)
PagesOf(db) == {db[i].page : i \in 1..Len(db)}

\* Merging two graphs by summing the weights of their edges.
MergeDicts(a, b) ==
    [k \in DOMAIN a \cup DOMAIN b |->
        (IF k \in DOMAIN a THEN a[k] ELSE 0) + (IF k \in DOMAIN b THEN b[k] ELSE 0)]

DictsOf(db, kind, userID) ==
    {o.dict : o \in {x \in CommOutcomes(db, kind, userID, userList, delta) : x.raised = ""}}

Weight(x, cp) == IF cp \in DOMAIN netDict[x] THEN netDict[x][cp] ELSE 0

\* The unit proposals staged for the ordered pair (x, cp): the examined edits
\* of x that have cp among their commPartners.
Proposals(x, cp) ==
    {i \in DOMAIN partners :
        edits[i].user = x /\ cp \in partners[i] /\ cp # x /\ cp \in Range(userList)}

NoSection == <<"None">>
HasMarker(s) ==
    \/ Len(s) >= 1 /\ s[1] = OPEN /\ \E j \in 2..Len(s) : s[j] = CLOSE
    \/ Len(s) >= 2 /\ s[Len(s)] = RB /\ \E k \in 1..(Len(s) - 1) : s[k] = LB

\* C7: for every edit record, extracting the section label raises no error,
\* and gives None for an absent or empty comment and for a comment with
\* neither marker.
C7_ExtractionNeverFails ==
    \A i \in 1..Len(edits) :
        LET c == edits[i].comment
            r == getSectionFromComment(c)
        IN  /\ r.raised = ""
            /\ (c.absent \/ c.text = <<>> \/ ~HasMarker(c.text)) => r.value = NoSection

\* ---- C8
IsUserTalk(p) == PageCategory(p) \in userTalkCats
Owner(p) == (getUserID(PageName(p).tail)).v

\* C8: every examined edit of a user talk page whose owner is not the editor
\* proposes the owner, and the owner is then counted in the editor's dictionary.
C8_OwnerProposed ==
    LocalCall =>
        \A i \in DOMAIN partners :
            (IsUserTalk(edits[i].page) /\ Owner(edits[i].page) # edits[i].user) =>
                /\ Owner(edits[i].page) \in partners[i]
                /\ (edits[i].user \in DOMAIN netDict /\ Owner(edits[i].page) \in Range(userList))
                      => Weight(edits[i].user, Owner(edits[i].page)) >= 1

\* ---- C10
Elapsed(i, j) == edits[i].time - edits[j].time

\* C10 as stated: with timeLimit = delta, every proposed editor has an edit of
\* the page at most delta before the examined edit, and an earlier edit of the
\* page by another editor made at most delta earlier (exactly delta earlier and
\* at the same timestamp included), with no edit of the examined editor after
\* it, is counted.
C10_Stated ==
    GlobalCall =>
        \A i \in DOMAIN partners : edits[i].page \in ContentPages =>
            /\ \A u \in partners[i] :
                  \E j \in 1..Len(edits) :
                      /\ edits[j].page = edits[i].page /\ edits[j].user = u
                      /\ Elapsed(i, j) <= delta
            /\ \A j \in SamePageBefore(i) :
                  (/\ edits[j].user # edits[i].user
                   /\ Elapsed(i, j) <= delta
                   /\ \A k \in OwnBefore(i) : k < j)
                      => edits[j].user \in partners[i]

\* C10 as amended: the proposed editors come only from edits of the page made
\* less than delta before the examined edit and strictly before its timestamp
\* (an edit exactly delta earlier, or at the same timestamp, is not counted by
\* itself), and every such edit by another editor that is later than every
\* edit of the examined editor in that window is counted.
C10_StrictWindow ==
    GlobalCall =>
        \A i \in DOMAIN partners : edits[i].page \in ContentPages =>
            /\ \A u \in partners[i] :
                  \E j \in 1..Len(edits) :
                      /\ edits[j].page = edits[i].page /\ edits[j].user = u
                      /\ Elapsed(i, j) > 0 /\ Elapsed(i, j) < delta
            /\ \A j \in 1..Len(edits) :
                  (/\ edits[j].page = edits[i].page
                   /\ edits[j].user # edits[i].user
                   /\ Elapsed(i, j) > 0 /\ Elapsed(i, j) < delta
                   /\ \A k \in 1..Len(edits) :
                         (/\ edits[k].page = edits[i].page
                          /\ edits[k].user = edits[i].user
                          /\ Elapsed(i, k) > 0 /\ Elapsed(i, k) < delta)
                             => edits[k].time < edits[j].time)
                      => edits[j].user \in partners[i]

\* An edit exactly delta before the examined one went uncounted while a nearer
\* one was counted.
C10_Witness ==
    /\ GlobalCall
    /\ \E i \in DOMAIN partners : \E j, k \in SamePageBefore(i) :
          /\ edits[i].page \in ContentPages
          /\ Elapsed(i, j) = delta
          /\ edits[j].user \notin partners[i]
          /\ edits[j].user # edits[i].user
          /\ Elapsed(i, k) > 0 /\ Elapsed(i, k) < delta
          /\ edits[k].user \in partners[i]

\* ---- C3
\* The reference reading of the page scope: pageHist holds every edit of the
\* scope, the last one being the edit just scanned.
HistCur == pageHist[Len(pageHist)]
HistWindow ==
    {j \in 1..(Len(pageHist) - 1) :
        config.editLimit = Unbounded \/ j >= Len(pageHist) - config.editLimit}
\* The earlier edits the scan passes before its editor's own edit or an edit
\* beyond the time limit stops it.
HistPassed ==
    {j \in HistWindow : \A m \in j..(Len(pageHist) - 1) :
        /\ pageHist[m].editor # HistCur.editor
        /\ ~TooOld(config, HistCur, pageHist[m])}
HistMatching == {j \in HistPassed : SameSection(config, HistCur.section, pageHist[j].section)}
\* The k nearest distinct editors among the edits J.
Nearest(J, k) ==
    {pageHist[j].editor : j \in
        {i \in J : Cardinality({pageHist[m].editor : m \in {x \in J : x > i}}
                                \ {pageHist[i].editor}) < k}}
Scanned == bpc = "scan" /\ lastEdit.n > 0
Windowed == Scanned /\ ~lastEdit.first

\* C3 as stated: with editorLimit = k, every edit proposes at most k
\* co-editors, and they are the k nearest distinct earlier editors of the page
\* that the scan reaches (all of them unless the network is a collaboration
\* network, which may propose none).
C3_Stated ==
    (Windowed /\ config.editorLimit # Unbounded) =>
        /\ Len(lastEdit.emitted) <= config.editorLimit
        /\ Range(lastEdit.emitted) \subseteq Nearest(HistPassed, config.editorLimit)
        /\ config.networkType # "collaboration" =>
              Range(lastEdit.emitted) = Nearest(HistPassed, config.editorLimit)

\* C3: with editorLimit = k, every edit collects and proposes at most k
\* distinct co-editors; with section filtering off they are exactly the k
\* nearest distinct earlier editors the scan reaches, nearest first, and with
\* section filtering on they are among the k nearest distinct editors of the
\* section-matching earlier edits.  The first edit of a page scope proposes
\* no co-editor.
C3_NearestEditors ==
    (Scanned /\ config.editorLimit # Unbounded) =>
        IF lastEdit.first THEN lastEdit.emitted = <<>>
        ELSE LET co == lastEdit.coEditors
                 k == config.editorLimit
             IN  /\ Len(co) <= k
                 /\ \A a, b \in 1..Len(co) : a # b => co[a] # co[b]
                 /\ lastEdit.emitted \in {co, <<>>}
                 /\ config.networkType # "collaboration" => lastEdit.emitted = co
                 /\ Range(co) \subseteq Nearest(HistMatching, k)
                 /\ ~config.sectionFilter =>
                       /\ Range(co) = Nearest(HistPassed, k)
                       /\ \A a \in 1..Len(co) : Range(SubSeq(co, 1, a)) = Nearest(HistPassed, a)

\* A page edited in order by A, B, C under editorLimit 1: C is connected to B only.
C3_Witness ==
    /\ Windowed
    /\ config.networkType = "coedit"
    /\ config.editorLimit = 1
    /\ ~config.sectionFilter
    /\ Len(pageHist) = 3
    /\ Cardinality({pageHist[j].editor : j \in 1..3}) = 3
    /\ lastEdit.emitted = <<pageHist[2].editor>>

\* ---- C4
\* The editor's most recent earlier edit of the page scope, 0 when none.
HistOwn ==
    LET own == {j \in 1..(Len(pageHist) - 1) : pageHist[j].editor = HistCur.editor}
    IN  IF own = {} THEN 0 ELSE CHOOSE j \in own : \A m \in own : m <= j
\* The edits since that prior visit.
Intervening == {j \in 1..(Len(pageHist) - 1) : j > HistOwn}
InterveningMatching ==
    {j \in Intervening : SameSection(config, HistCur.section, pageHist[j].section)}
\* The scan reaches the prior visit: it lies in the edit window, no edit from
\* it on is beyond the time limit, and the editor limit is not reached before it.
OwnReached ==
    /\ HistOwn \in HistWindow
    /\ \A m \in HistOwn..(Len(pageHist) - 1) : ~TooOld(config, HistCur, pageHist[m])
    /\ \/ config.editorLimit = Unbounded
       \/ Cardinality({pageHist[j].editor : j \in InterveningMatching}) < config.editorLimit

\* C4 as stated: a collaboration edit proposes edges only if its scan reached
\* an earlier edit of its editor on the page, then to exactly the distinct
\* editors of the intervening edits, and none when its editor has no earlier
\* edit on the page.
C4_Stated ==
    (Scanned /\ config.networkType = "collaboration") =>
        /\ lastEdit.emitted # <<>> => ~lastEdit.first /\ lastEdit.collaboration
        /\ (~lastEdit.first /\ lastEdit.collaboration) =>
              Range(lastEdit.emitted) = {pageHist[j].editor : j \in Intervening}
        /\ (lastEdit.first \/ HistOwn = 0) => lastEdit.emitted = <<>>

\* C4: a collaboration edit proposes edges only if its scan reached an
\* earlier edit of its editor on the page, and then to exactly the distinct
\* editors of the intervening edits that pass the section filter (all of them
\* when section filtering is off); an edit whose scan reached no such edit
\* proposes none.  The scan reaches it only if it lies within the limits, and
\* always then when section filtering is off or no editor limit is set.
C4_ReturnCycle ==
    (Scanned /\ config.networkType = "collaboration") =>
        IF lastEdit.first THEN lastEdit.emitted = <<>> /\ ~lastEdit.collaboration
        ELSE /\ lastEdit.collaboration => OwnReached
             /\ (~config.sectionFilter \/ config.editorLimit = Unbounded) =>
                   (OwnReached => lastEdit.collaboration)
             /\ lastEdit.collaboration =>
                   /\ Range(lastEdit.emitted) = {pageHist[j].editor : j \in InterveningMatching}
                   /\ \A a, b \in 1..Len(lastEdit.emitted) :
                         a # b => lastEdit.emitted[a] # lastEdit.emitted[b]
             /\ ~lastEdit.collaboration => lastEdit.emitted = <<>>

\* An editor returns to a page that two others edited since the prior visit.
C4_Witness ==
    /\ Scanned
    /\ config.networkType = "collaboration"
    /\ ~lastEdit.first
    /\ lastEdit.collaboration
    /\ Len(lastEdit.emitted) = 2
    /\ Len(pageHist) = 4

\* ---- C9
\* C9: a normalized betweenness query fails with DegenerateGraphError exactly
\* when the graph has fewer than two vertices, and for every graph of two or
\* more vertices it returns a value whose normalization denominator
\* n*n - 3*n + 2 is strictly positive.
C9_DenominatorPositive ==
    bpc = "queried" =>
        LET n == Len(graph.vertices)
        IN  /\ result.raised = "DegenerateGraphError" => n < 2
            /\ n < 2 => result.raised = "DegenerateGraphError" \/ result = Value(<<1, 1>>)
            /\ n >= 2 => result.raised = "" /\ result.value[2] > 0

\* ---- C11
\* C11: no user is recorded as their own partner in a dictionary built by
\* getGlobalComm, getLocalComm, getObservations or makeNetwork, so every
\* matrix networkDictToMatrix renders from one, at any cutoff, dichotomized or
\* not, has "0" on its whole diagonal; and no edge proposal and no edge of the
\* builder has the same contributor as source and target.
C11_NoSelfTies ==
    /\ \A x \in DOMAIN netDict : x \notin DOMAIN netDict[x]
    /\ \A cutoff \in 0..MaxCutoff, dichotomize \in BOOLEAN : \A i \in DOMAIN netDict :
          finalMatrix(netDict, cutoff, dichotomize)[i][i] = "0"
    /\ \A i \in DOMAIN matrix : matrix[i][i] = "0"
    /\ \A k \in 1..Len(staged) : staged[k][1] # staged[k][2]
    /\ \A k \in 1..Len(graph.edges) : graph.edges[k].from # graph.edges[k].to

\* An observation network is rendered in which a user who was the last
\* editor before an edit of their own has a partner.
C11_Witness ==
    /\ pc = "doneObservation"
    /\ \E x \in DOMAIN netDict :
          /\ DOMAIN netDict[x] # {}
          /\ \E i \in 1..Len(edits) :
                edits[i].user = x /\ x \in getLastEditor(edits, edits[i].page, edits[i].time)
    /\ \E i, j \in DOMAIN matrix : matrix[i][j] = "1"

====
